---- MODULE Spec2Model ----
(***************************************************************************)
(* Model of src/app.py: the CSV normalisation pipeline parse_sales_data,   *)
(* apply_filters, calculate_category_stats, their memoization, and the     *)
(* module-level script that calls them on an upload or a widget change.    *)
(* Spec: one upload of any text; SpecCache: a sequence of uploads;         *)
(* SpecFilter: one upload, then widget changes while the clock advances.   *)
(*                                                                         *)
(* A cell of the uploaded text is a sequence of one-character strings, so  *)
(* that substring tests, regular-expression searches and numeric parsing   *)
(* are computed character by character as the code's library calls do.     *)
(* The uploaded content is the sequence of its delimited rows (the result  *)
(* of splitting the text into lines and fields); an empty field is <<>>.   *)
(*                                                                         *)
(* Numbers: integers are Python/numpy int64 (the values of the model stay  *)
(* far from 2^63).  A float that holds a decimal amount is kept exactly,   *)
(* in hundredths, as [k |-> "fin", v |-> hundredths]; the IEEE special     *)
(* values are [k |-> "inf", v |-> 1 or -1] and [k |-> "nan", v |-> 0].     *)
(*                                                                         *)
(* The texts of the model: numerals are written canonically (no leading    *)
(* zeros, no "+", no exponent, at most two fraction digits), timestamps    *)
(* are written to the minute, and no field is one of the reader's NA       *)
(* tokens other than the empty field.                                      *)
(***************************************************************************)
EXTENDS Integers, Sequences, FiniteSets, TLC

\* ------------------------------------------------------------ characters

Digits == <<"0","1","2","3","4","5","6","7","8","9">>

UpperCase == <<"A","B","C","D","E","F","G","H","I","J","K","L","M",
               "N","O","P","Q","R","S","T","U","V","W","X","Y","Z">>

LowerCase == <<"a","b","c","d","e","f","g","h","i","j","k","l","m",
               "n","o","p","q","r","s","t","u","v","w","x","y","z">>

IsDigit(c) == \E i \in DOMAIN Digits : Digits[i] = c

DigitVal(c) == (CHOOSE i \in DOMAIN Digits : Digits[i] = c) - 1

\* str.lower() on one character
LowerChar(c) ==
    IF \E i \in DOMAIN UpperCase : UpperCase[i] = c
    THEN LowerCase[CHOOSE i \in DOMAIN UpperCase : UpperCase[i] = c]
    ELSE c

\* str.lower()
Lower(s) == [i \in DOMAIN s |-> LowerChar(s[i])]

\* s[i:] of Python, 1-based here
Drop(s, n) == SubSeq(s, n + 1, Len(s))

\* the literal pattern pat occurs in s at position i
LitAt(s, i, pat) ==
    /\ i + Len(pat) - 1 <= Len(s)
    /\ \A j \in 1..Len(pat) : s[i + j - 1] = pat[j]

\* Python's `pat in s`: a literal substring test
Contains(s, pat) == \E i \in 1..(Len(s) + 1) : LitAt(s, i, pat)

\* the regular expression pat (literal characters and ".", which matches
\* any character) matches in s at position i
RegexAt(s, i, pat) ==
    /\ i + Len(pat) - 1 <= Len(s)
    /\ \A j \in 1..Len(pat) : pat[j] = "." \/ s[i + j - 1] = pat[j]

\* re.search(pat, s) finds a match
RegexSearch(s, pat) == \E i \in 1..(Len(s) + 1) : RegexAt(s, i, pat)

\* str.replace(old, "") for a one-character old
RECURSIVE RemoveChar(_, _)
RemoveChar(s, c) ==
    IF s = <<>> THEN <<>>
    ELSE IF Head(s) = c THEN RemoveChar(Tail(s), c)
    ELSE <<Head(s)>> \o RemoveChar(Tail(s), c)

RECURSIVE LStrip(_)
LStrip(s) == IF s # <<>> /\ Head(s) = " " THEN LStrip(Tail(s)) ELSE s

RECURSIVE RStrip(_)
RStrip(s) ==
    IF s # <<>> /\ s[Len(s)] = " " THEN RStrip(SubSeq(s, 1, Len(s) - 1)) ELSE s

\* str.strip()
Strip(s) == RStrip(LStrip(s))

\* str.isdigit(): non-empty and all digits
IsDigitStr(s) == s # <<>> /\ \A i \in DOMAIN s : IsDigit(s[i])

RECURSIVE NatVal(_)
NatVal(s) == IF s = <<>> THEN 0 ELSE NatVal(SubSeq(s, 1, Len(s) - 1)) * 10 + DigitVal(s[Len(s)])

\* ------------------------------------------------------------ numbers

Fin(v) == [k |-> "fin", v |-> v]

PosInf == [k |-> "inf", v |-> 1]

NegInf == [k |-> "inf", v |-> -1]

NaN == [k |-> "nan", v |-> 0]

STR_INF == <<"i","n","f">>

STR_NAN == <<"n","a","n">>

\* position of the first "." of s, 0 if there is none
DotPos(s) ==
    IF \E i \in DOMAIN s : s[i] = "."
    THEN CHOOSE i \in DOMAIN s : s[i] = "." /\ \A j \in 1..(i - 1) : s[j] # "."
    ELSE 0

\* s without its sign
Unsigned(s) == IF s # <<>> /\ Head(s) = "-" THEN Tail(s) ELSE s

SignOf(s) == IF s # <<>> /\ Head(s) = "-" THEN -1 ELSE 1

\* an unsigned decimal numeral: digits, or digits "." digits
IsUnsignedDecimal(b) ==
    IF DotPos(b) = 0 THEN IsDigitStr(b)
    ELSE /\ IsDigitStr(SubSeq(b, 1, DotPos(b) - 1))
         /\ IsDigitStr(Drop(b, DotPos(b)))

\* an integer numeral, as the CSV reader and to_numeric recognise it
IsIntText(s) == IsDigitStr(Unsigned(s))

\* a numeral the float parser accepts: [-]digits[.digits] or [-]inf
\* (the numerals of the model carry no exponent and no leading "+")
IsNumericText(s) ==
    \/ IsUnsignedDecimal(Unsigned(s))
    \/ Lower(Unsigned(s)) = STR_INF

\* the first two fraction digits of an unsigned decimal, as hundredths
FracHundredths(f) ==
    IF Len(f) = 0 THEN 0
    ELSE IF Len(f) = 1 THEN DigitVal(f[1]) * 10
    ELSE DigitVal(f[1]) * 10 + DigitVal(f[2])

UnsignedHundredths(b) ==
    IF DotPos(b) = 0 THEN NatVal(b) * 100
    ELSE NatVal(SubSeq(b, 1, DotPos(b) - 1)) * 100 + FracHundredths(Drop(b, DotPos(b)))

\* pd.to_numeric(..., errors='coerce') on one value: the float it yields,
\* NaN for a missing value or a text that is no numeral
to_numeric(cell) ==
    LET t == Strip(cell) IN
    IF ~IsNumericText(t) THEN NaN
    ELSE IF Lower(Unsigned(t)) = STR_INF
         THEN (IF SignOf(t) = 1 THEN PosInf ELSE NegInf)
    ELSE Fin(SignOf(t) * UnsignedHundredths(Unsigned(t)))

\* .fillna(0)
FillNa0(x) == IF x.k = "nan" THEN Fin(0) ELSE x

\* float -> int of a finite float: truncation toward zero
TruncToInt(h) == IF h >= 0 THEN h \div 100 ELSE -((-h) \div 100)

\* int * float
FMul(n, x) ==
    IF x.k = "fin" THEN Fin(n * x.v)
    ELSE IF x.k = "nan" \/ n = 0 THEN NaN
    ELSE IF n > 0 THEN x
    ELSE [k |-> "inf", v |-> -x.v]

\* float - float
FSub(x, y) ==
    IF x.k = "nan" \/ y.k = "nan" THEN NaN
    ELSE IF x.k = "fin" /\ y.k = "fin" THEN Fin(x.v - y.v)
    ELSE IF x.k = "inf" /\ y.k = "inf"
         THEN (IF x.v = y.v THEN NaN ELSE x)
    ELSE IF x.k = "inf" THEN x
    ELSE [k |-> "inf", v |-> -y.v]

\* ------------------------------------------------------------ the CSV reader

\* a row padded with missing fields up to the table width
PadRow(row, w) == [j \in 1..w |-> IF j <= Len(row) THEN row[j] ELSE <<>>]

\* on_bad_lines='skip': a line with more than w fields is dropped, the others
\* are kept in order and padded
RECURSIVE SkipBadLines(_, _)
SkipBadLines(rows, w) ==
    IF rows = <<>> THEN <<>>
    ELSE IF Len(Head(rows)) > w THEN SkipBadLines(Tail(rows), w)
    ELSE <<PadRow(Head(rows), w)>> \o SkipBadLines(Tail(rows), w)

\* the dtype the reader infers for column j of the table
ColDtype(rows, j) ==
    LET present == {i \in DOMAIN rows : rows[i][j] # <<>>} IN
    IF \E i \in present : ~IsNumericText(rows[i][j]) THEN "object"
    ELSE IF present = DOMAIN rows /\ \A i \in present : IsIntText(rows[i][j])
         THEN "int64"
    ELSE "float64"

\* pd.read_csv(header=None, on_bad_lines='skip', engine='c'): the table width is
\* the field count of the first line, a longer line is skipped, a shorter line
\* is padded with missing values; a text with no line raises EmptyDataError
read_csv(file_content) ==
    IF file_content = <<>>
    THEN [raised |-> TRUE, width |-> 0, rows |-> <<>>, dtypes |-> <<>>]
    ELSE LET w == Len(file_content[1])
             rows == SkipBadLines(file_content, w)
         IN [raised |-> FALSE, width |-> w, rows |-> rows,
             dtypes |-> [j \in 1..w |-> ColDtype(rows, j)]]

\* repr of a float that holds the numeral txt
FloatRepr(txt) ==
    IF Lower(Unsigned(txt)) = STR_INF THEN txt
    ELSE IF DotPos(txt) = 0 THEN txt \o <<".", "0">>
    ELSE LET keep == CHOOSE n \in DotPos(txt) + 1 .. Len(txt) :
                        /\ \A i \in (n + 1)..Len(txt) : txt[i] = "0"
                        /\ (n = DotPos(txt) + 1 \/ txt[n] # "0")
         IN SubSeq(txt, 1, keep)

\* str(value) of a value of a column of dtype dt whose field text is cell
StrOf(cell, dt) ==
    IF cell = <<>> THEN STR_NAN
    ELSE IF dt = "float64" THEN FloatRepr(cell)
    ELSE cell

\* ------------------------------------------------------------ parse_sales_data

STR_KEYWORD == <<"k","e","y","w","o","r","d">>

RE_EBAY_COM == <<"e","b","a","y",".","c","o","m">>

STR_ITM == <<"/","i","t","m","/">>

STR_NA == <<"N","/","A">>

\* IsHeaderRow without the .lower() of line 33
IsHeaderRow_CaseSensitive(table) ==
    /\ table.rows # <<>>
    /\ table.rows[1][1] # <<>>
    /\ table.dtypes[1] = "object"
    /\ Contains(table.rows[1][1], STR_KEYWORD)

\* line 33: the first row is a header row
IsHeaderRow(table) ==
    /\ table.rows # <<>>
    /\ table.rows[1][1] # <<>>
    /\ table.dtypes[1] = "object"
    /\ Contains(Lower(table.rows[1][1]), STR_KEYWORD)

\* lines 33-36: the data rows, the header row dropped
DataRows(table) == IF IsHeaderRow(table) THEN Tail(table.rows) ELSE table.rows

\* line 42: the sampled value looks like a price
LooksLikePrice(sample_val) ==
    \/ Contains(sample_val, <<"$">>)
    \/ /\ IsDigitStr(RemoveChar(RemoveChar(sample_val, "."), ","))
       /\ Contains(sample_val, <<".">>)

\* FormatType sampling the last data row in place of the first
FormatType_LastRow(table) ==
    LET data == DataRows(table)
        sample_val == IF Len(data) > 0 THEN StrOf(data[Len(data)][3], table.dtypes[3]) ELSE <<>>
    IN IF table.width >= 7 /\ LooksLikePrice(sample_val) THEN "new" ELSE "old"

\* lines 37-43: format_type, decided on the third field of the first data row
FormatType(table) ==
    LET data == DataRows(table)
        sample_val == IF Len(data) > 0 THEN StrOf(data[1][3], table.dtypes[3]) ELSE <<>>
    IN IF table.width >= 7 /\ LooksLikePrice(sample_val) THEN "new" ELSE "old"

\* Layout with  num_cols > 5  in place of  num_cols >= 5  at line 50
Layout_FiveExcluded(format_type, num_cols) ==
    IF format_type = "new" /\ num_cols >= 7
    THEN [ok |-> TRUE, Price |-> 3, Dec |-> 4, Jan |-> 5, Date |-> 6, Status |-> 7]
    ELSE IF num_cols >= 6
    THEN [ok |-> TRUE, Price |-> 0, Dec |-> 3, Jan |-> 4, Date |-> 5, Status |-> 6]
    ELSE [ok |-> FALSE, Price |-> 0, Dec |-> 0, Jan |-> 0, Date |-> 0, Status |-> 0]

\* lines 45-56: the column names given to the table, as the position of each
\* named column (0: the column is not read from the table but defaulted);
\* ok is FALSE when the table has too few columns
Layout(format_type, num_cols) ==
    IF format_type = "new" /\ num_cols >= 7
    THEN [ok |-> TRUE, Price |-> 3, Dec |-> 4, Jan |-> 5, Date |-> 6, Status |-> 7]
    ELSE IF num_cols >= 6
    THEN [ok |-> TRUE, Price |-> 0, Dec |-> 3, Jan |-> 4, Date |-> 5, Status |-> 6]
    ELSE IF num_cols >= 5
    THEN [ok |-> TRUE, Price |-> 0, Dec |-> 3, Jan |-> 4, Date |-> 5, Status |-> 0]
    ELSE [ok |-> FALSE, Price |-> 0, Dec |-> 0, Jan |-> 0, Date |-> 0, Status |-> 0]

\* SalesFloat with a clip(lower=0) added
SalesFloat_Clipped(cell) ==
    IF FillNa0(to_numeric(cell)).v < 0 THEN Fin(0) ELSE FillNa0(to_numeric(cell))

\* lines 58-59: pd.to_numeric(errors='coerce').fillna(0), before .astype(int)
SalesFloat(cell) == FillNa0(to_numeric(cell))

\* PriceOf without the removal of "$" and "," of line 62
PriceOf_NoStrip(row, dtypes, lay) ==
    IF lay.Price = 0 THEN Fin(0)
    ELSE FillNa0(to_numeric(Strip(StrOf(row[lay.Price], dtypes[lay.Price]))))

\* lines 62-63: the price of a row
PriceOf(row, dtypes, lay) ==
    IF lay.Price = 0 THEN Fin(0)
    ELSE FillNa0(to_numeric(Strip(RemoveChar(RemoveChar(
             StrOf(row[lay.Price], dtypes[lay.Price]), "$"), ","))))

\* a timestamp text YYYY-MM-DD hh:mm
IsTimestampText(s) ==
    /\ Len(s) = 16
    /\ \A i \in {1, 2, 3, 4, 6, 7, 9, 10, 12, 13, 15, 16} : IsDigit(s[i])
    /\ s[5] = "-" /\ s[8] = "-" /\ s[11] = " " /\ s[14] = ":"

NaT == [k |-> "NaT", v |-> <<>>]

\* line 65: pd.to_datetime(errors='coerce') on one value: the timestamp as
\* <<year, month, day, hour, minute>>, NaT for a missing value or a text that
\* is no date.  What the tolerant parser makes of a bare numeral depends on
\* the column dtype, the library version and the current date: the model
\* keeps it as the symbolic value "numeral" of that text.
to_datetime(cell) ==
    IF IsTimestampText(cell)
    THEN [k |-> "ts", v |-> <<NatVal(SubSeq(cell, 1, 4)), NatVal(SubSeq(cell, 6, 7)),
                              NatVal(SubSeq(cell, 9, 10)), NatVal(SubSeq(cell, 12, 13)),
                              NatVal(SubSeq(cell, 15, 16))>>]
    ELSE IF to_numeric(cell).k = "fin" THEN [k |-> "numeral", v |-> Strip(cell)]
    ELSE NaT

\* GrowthPct with the mask  dec != 0  in place of  dec > 0
GrowthPct_NonZeroMask(dec, jan) ==
    IF dec # 0 THEN [num |-> (jan - dec) * 100, den |-> dec]
    ELSE IF jan > 0 THEN [num |-> 100, den |-> 1]
    ELSE [num |-> 0, den |-> 1]

\* lines 70-74: Growth %, the float kept as the exact fraction num/den
GrowthPct(dec, jan) ==
    IF dec > 0 THEN [num |-> (jan - dec) * 100, den |-> dec]
    ELSE IF jan > 0 THEN [num |-> 100, den |-> 1]
    ELSE [num |-> 0, den |-> 1]

\* GrowthOf with its operands swapped
GrowthOf_Swapped(dec, jan) == dec - jan

\* line 68: Growth
GrowthOf(dec, jan) == jan - dec

\* the length of the digit run of s that starts at position i
RECURSIVE DigitRun(_, _)
DigitRun(s, i) == IF i <= Len(s) /\ IsDigit(s[i]) THEN 1 + DigitRun(s, i + 1) ELSE 0

\* ItemId with the pattern /itm/(\d) : one digit in place of the digit run
ItemId_OneDigit(cell) ==
    LET hits == {i \in DOMAIN cell : LitAt(cell, i, STR_ITM) /\ DigitRun(cell, i + 5) > 0} IN
    IF hits = {} THEN STR_NA
    ELSE LET i == CHOOSE h \in hits : \A g \in hits : h <= g
         IN SubSeq(cell, i + 5, i + 5)

\* line 81: str.extract(r'/itm/(\d+)').fillna('N/A') on one value
ItemId(cell) ==
    LET hits == {i \in DOMAIN cell : LitAt(cell, i, STR_ITM) /\ DigitRun(cell, i + 5) > 0} IN
    IF hits = {} THEN STR_NA
    ELSE LET i == CHOOSE h \in hits : \A g \in hits : h <= g
         IN SubSeq(cell, i + 5, i + 4 + DigitRun(cell, i + 5))

\* lines 58-85 on one data row; index is the row's label after reset_index
NormalizeRow(row, dtypes, lay, index) ==
    LET dec == TruncToInt(SalesFloat(row[lay.Dec]).v)
        jan == TruncToInt(SalesFloat(row[lay.Jan]).v)
        price == PriceOf(row, dtypes, lay)
        total == dec + jan
        dec_rev == FMul(dec, price)
        jan_rev == FMul(jan, price)
    IN [index |-> index,
        Product |-> Strip(StrOf(row[1], dtypes[1])),
        URL |-> Strip(StrOf(row[2], dtypes[2])),
        Dec_Sales |-> dec,
        Jan_Sales |-> jan,
        Price |-> price,
        Total_Sales |-> total,
        Growth |-> GrowthOf(dec, jan),
        Growth_Pct |-> GrowthPct(dec, jan),
        Dec_Revenue |-> dec_rev,
        Jan_Revenue |-> jan_rev,
        Total_Revenue |-> FMul(total, price),
        Revenue_Growth |-> FSub(jan_rev, dec_rev),
        Date_Checked |-> to_datetime(row[lay.Date]),
        Status |-> IF lay.Status = 0 THEN STR_NA ELSE StrOf(row[lay.Status], dtypes[lay.Status]),
        Item_ID |-> ItemId(row[2])]

\* line 87: the row filter  df['URL'].str.contains('ebay.com', na=False),
\* whose pattern is a regular expression
UrlFilter(url) == RegexSearch(url, RE_EBAY_COM)

\* SelectSeq with a one-argument operator
RECURSIVE FilterRecords(_)
FilterRecords(recs) ==
    IF recs = <<>> THEN <<>>
    ELSE IF UrlFilter(Head(recs).URL) THEN <<Head(recs)>> \o FilterRecords(Tail(recs))
    ELSE FilterRecords(Tail(recs))

\* an operation of lines 58-85 raises: .astype(int) on a column that holds an
\* infinite value (lines 58-59), or the .str accessor on a URL column that
\* the reader typed as numeric (line 81)
NormalizeRaises(data, dtypes, lay) ==
    \/ \E i \in DOMAIN data : SalesFloat(data[i][lay.Dec]).k = "inf"
    \/ \E i \in DOMAIN data : SalesFloat(data[i][lay.Jan]).k = "inf"
    \/ dtypes[2] # "object"

\* the empty frame pd.DataFrame() of lines 56 and 94, with the error shown
EmptyFrame(err, nc, ft) ==
    [records |-> <<>>, n_columns |-> 0, error |-> err, num_cols |-> nc, format_type |-> ft]

\* the 15 columns selected at lines 89-90
N_OUTPUT_COLUMNS == 15

\* the body of parse_sales_data (lines 25-94, without the memoization of line 24):
\* the returned frame, the error it showed, and its locals num_cols and format_type
parse_sales_data(file_content) ==
    LET table == read_csv(file_content) IN
    IF table.raised THEN EmptyFrame("exception", 0, "old")
    ELSE
    LET data == DataRows(table)
        num_cols == table.width
        format_type == FormatType(table)
        lay == Layout(format_type, num_cols)
    IN IF ~lay.ok THEN EmptyFrame("insufficient columns", num_cols, format_type)
       ELSE IF NormalizeRaises(data, table.dtypes, lay)
       THEN EmptyFrame("exception", num_cols, format_type)
       ELSE [records |-> FilterRecords([i \in DOMAIN data |->
                             NormalizeRow(data[i], table.dtypes, lay, i - 1)]),
             n_columns |-> N_OUTPUT_COLUMNS,
             error |-> "",
             num_cols |-> num_cols,
             format_type |-> format_type]

\* ------------------------------------------------------------ apply_filters

\* the value None of a time window, and a window of t minutes
NONE == <<>>

Minutes(t) == <<t>>

\* lines 153-165: the values of time_filter_options
TimeFilterOptions ==
    {NONE} \cup {Minutes(t) : t \in {5, 15, 30, 60, 120, 360, 720, 1440, 2880, 10080}}

\* line 174: the first option of the product selectbox
ALL_PRODUCTS == <<"A","l","l"," ","P","r","o","d","u","c","t","s">>

\* lines 177-180: the options of the performance selectbox
PerformanceOptions ==
    {"All", "Growing (Jan > Dec)", "Declining (Jan < Dec)", "No Sales", "New Sales (Dec=0, Jan>0)"}

\* the days of a year of 365 days that lie before month m
DaysBeforeMonth == <<0, 31, 59, 90, 120, 151, 181, 212, 243, 273, 304, 334>>

\* a timestamp <<year, month, day, hour, minute>> in minutes since
\* 2026-01-01 00:00 (the dates of the uploaded texts lie in 2026)
ToMinutes(v) ==
    ((((v[1] - 2026) * 365 + DaysBeforeMonth[v[2]] + (v[3] - 1)) * 24 + v[4]) * 60) + v[5]

\* line 103: filtered_df['Date Checked'] >= cutoff_time on one value; NaT
\* compares False; the date of a numeral is not modelled, and no time window
\* is selected over a Dataset that holds one (SetTimeFilter)
DateAtLeast(d, cutoff_time) ==
    IF d.k = "ts" THEN ToMinutes(d.v) >= cutoff_time ELSE FALSE

\* lines 108-115: the performance mask on one record
PerformanceMask(r, performance_filter) ==
    IF performance_filter = "Growing (Jan > Dec)" THEN r.Growth > 0
    ELSE IF performance_filter = "Declining (Jan < Dec)" THEN r.Growth < 0
    ELSE IF performance_filter = "No Sales" THEN r.Total_Sales = 0
    ELSE IF performance_filter = "New Sales (Dec=0, Jan>0)"
         THEN r.Dec_Sales = 0 /\ r.Jan_Sales > 0
    ELSE TRUE

\* lines 97-120: the body of apply_filters; now is the value datetime.now()
\* returns at line 102
apply_filters(frame, time_minutes, selected_product, performance_filter, min_total_sales, min_jan_sales, now) ==
    LET Keep(r) ==
            /\ time_minutes # NONE => DateAtLeast(r.Date_Checked, now - time_minutes[1])
            /\ selected_product # ALL_PRODUCTS => r.Product = selected_product
            /\ PerformanceMask(r, performance_filter)
            /\ r.Total_Sales >= min_total_sales
            /\ r.Jan_Sales >= min_jan_sales
    IN SelectSeq(frame, Keep)

\* ------------------------------------------------------------ calculate_category_stats

\* float + float
FAdd(x, y) ==
    IF x.k = "nan" \/ y.k = "nan" THEN NaN
    ELSE IF x.k = "fin" /\ y.k = "fin" THEN Fin(x.v + y.v)
    ELSE IF x.k = "inf" /\ y.k = "inf"
         THEN (IF x.v = y.v THEN x ELSE NaN)
    ELSE IF x.k = "inf" THEN x
    ELSE y

\* the 'sum' of a float column: NaN values are skipped
RECURSIVE FSum(_)
FSum(xs) ==
    IF xs = <<>> THEN Fin(0)
    ELSE IF Head(xs).k = "nan" THEN FSum(Tail(xs))
    ELSE FAdd(Head(xs), FSum(Tail(xs)))

\* the 'sum' of an integer column
RECURSIVE ISum(_)
ISum(xs) == IF xs = <<>> THEN 0 ELSE Head(xs) + ISum(Tail(xs))

\* a / b for b > 0, rounded to the nearest integer, a half to the even one
RoundHalfEven(a, b) ==
    LET q == a \div b
        rem == a - (q * b)
    IN IF 2 * rem > b THEN q + 1
       ELSE IF 2 * rem < b THEN q
       ELSE IF q % 2 = 0 THEN q
       ELSE q + 1

\* (float / count).round(2), a finite float in hundredths
FDivRound2(x, n) == IF x.k = "fin" THEN Fin(RoundHalfEven(x.v, n)) ELSE x

\* the column named col of a frame, as a sequence
Column(frame, col) == [i \in DOMAIN frame |-> frame[i][col]]

\* GroupRow with 'URL': 'nunique' in place of 'count'
GroupRow_DistinctUrls(filtered_df, product) ==
    LET grp == SelectSeq(filtered_df, LAMBDA r : r.Product = product)
        n == Cardinality({grp[i].URL : i \in DOMAIN grp})
    IN [Product |-> product,
        Total_Sales |-> ISum(Column(grp, "Total_Sales")),
        Dec_Sales |-> ISum(Column(grp, "Dec_Sales")),
        Jan_Sales |-> ISum(Column(grp, "Jan_Sales")),
        Total_Revenue |-> FSum(Column(grp, "Total_Revenue")),
        Dec_Revenue |-> FSum(Column(grp, "Dec_Revenue")),
        Jan_Revenue |-> FSum(Column(grp, "Jan_Revenue")),
        Avg_Price |-> [sum |-> FSum(Column(grp, "Price")), count |-> Len(grp)],
        Listings_Count |-> n,
        Avg_Sales_per_Listing |-> RoundHalfEven(10 * ISum(Column(grp, "Total_Sales")), n),
        Avg_Revenue_per_Listing |-> FDivRound2(FSum(Column(grp, "Total_Revenue")), n)]

\* lines 124-131: the aggregate row of the records of one product; Avg Price
\* is the exact mean [sum, count], Avg Sales per Listing is in tenths
GroupRow(filtered_df, product) ==
    LET grp == SelectSeq(filtered_df, LAMBDA r : r.Product = product)
        n == Len(grp)
    IN [Product |-> product,
        Total_Sales |-> ISum(Column(grp, "Total_Sales")),
        Dec_Sales |-> ISum(Column(grp, "Dec_Sales")),
        Jan_Sales |-> ISum(Column(grp, "Jan_Sales")),
        Total_Revenue |-> FSum(Column(grp, "Total_Revenue")),
        Dec_Revenue |-> FSum(Column(grp, "Dec_Revenue")),
        Jan_Revenue |-> FSum(Column(grp, "Jan_Revenue")),
        Avg_Price |-> [sum |-> FSum(Column(grp, "Price")), count |-> n],
        Listings_Count |-> n,
        Avg_Sales_per_Listing |-> RoundHalfEven(10 * ISum(Column(grp, "Total_Sales")), n),
        Avg_Revenue_per_Listing |-> FDivRound2(FSum(Column(grp, "Total_Revenue")), n)]

\* lines 123-133: the frames calculate_category_stats can return: one row per
\* product of filtered_df, by Total Sales descending; sort_values' default
\* quicksort fixes no order among rows of equal Total Sales
calculate_category_stats(filtered_df) ==
    LET products == {filtered_df[i].Product : i \in DOMAIN filtered_df}
        rows == {GroupRow(filtered_df, p) : p \in products}
        n == Cardinality(products)
    IN {s \in [1..n -> rows] :
           /\ \A i, j \in 1..n : i # j => s[i] # s[j]
           /\ \A i \in 1..(n - 1) : s[i].Total_Sales >= s[i + 1].Total_Sales}

\* ------------------------------------------------------------ uploaded texts

\* The fields from which the uploaded texts of the model are built.
P_KEYWORD == <<"K","e","y","w","o","r","d">>

P_MY_KEYWORD == <<"m","y"," ","K","e","y","W","o","r","d">>

P_HEATERS == <<"H","e","a","t","e","r","s">>

P_HOLDERS == <<"h","o","l","d","e","r","s">>

P_KEYWORD_LAMP == <<"k","e","y","w","o","r","d"," ","l","a","m","p">>

H_URL == <<"U","R","L">>

H_PRICE == <<"P","r","i","c","e">>

H_DEC == <<"D","e","c">>

H_JAN == <<"J","a","n">>

H_DATE == <<"D","a","t","e">>

H_STATUS == <<"S","t","a","t","u","s">>

U_EBAY_12 == <<"w","w","w",".","e","b","a","y",".","c","o","m","/","i","t","m","/","1","2">>

U_EBAY_34 == <<"w","w","w",".","e","b","a","y",".","c","o","m","/","i","t","m","/","3","4">>

U_EBAYXCOM == <<"w","w","w",".","e","b","a","y","x","c","o","m","/","i","t","m","/","5">>

U_EBAY_TWO_ITM == <<"e","b","a","y",".","c","o","m","/","i","t","m","/","x","/","i","t","m","/","8","/","i","t","m","/","9">>

U_AMAZON == <<"w","w","w",".","a","m","a","z","o","n",".","c","o","m","/","d","p","/","B","1">>

U_EBAY_NO_ITM == <<"w","w","w",".","e","b","a","y",".","c","o","m","/","p","/","9">>

U_EBAY_PADDED == <<" ","w","w","w",".","e","b","a","y",".","c","o","m","/","i","t","m","/","7"," ">>

C_USD_41_41 == <<"$","4","1",".","4","1">>

C_41_41 == <<"4","1",".","4","1">>

C_41 == <<"4","1">>

C_USD_1234_50 == <<"$","1",",","2","3","4",".","5","0">>

C_USD_5_00 == <<"$","5",".","0","0">>

C_USD_NEG_3_00 == <<"$","-","3",".","0","0">>

C_ABC == <<"a","b","c">>

C_INF == <<"i","n","f">>

C_NEG_5 == <<"-","5">>

C_3_7 == <<"3",".","7">>

C_0 == <<"0">>

C_5 == <<"5">>

C_10 == <<"1","0">>

C_15 == <<"1","5">>

C_16 == <<"1","6">>

C_45 == <<"4","5">>

C_11 == <<"1","1">>

D_JAN_24 == <<"2","0","2","6","-","0","1","-","2","4"," ","1","1",":","5","4">>

D_JAN_14 == <<"2","0","2","6","-","0","1","-","1","4"," ","2","2",":","5","2">>

D_SOON == <<"s","o","o","n">>

S_SUCCESS == <<"S","u","c","c","e","s","s">>

S_FAILED == <<"F","a","i","l","e","d">>

C_X == <<"x">>

MISSING == <<>>

\* The rows (lines split into fields) from which the uploaded texts are built.
\* header of format 1 (line 473)
ROW_H7 == <<P_KEYWORD, H_URL, H_PRICE, H_DEC, H_JAN, H_DATE, H_STATUS>>

\* header of format 2 (line 479)
ROW_H6 == <<P_KEYWORD, H_URL, H_DEC, H_JAN, H_DATE, H_STATUS>>

\* a row whose first cell holds the token in mixed case
ROW_HE == <<P_MY_KEYWORD, U_EBAY_34, C_5, C_10, D_JAN_14, S_SUCCESS>>

\* the priced row of line 474
ROW_P1 == <<P_HEATERS, U_EBAY_12, C_USD_41_41, C_16, C_45, D_JAN_24, S_SUCCESS>>

\* priced, no currency symbol
ROW_P2 == <<P_HEATERS, U_EBAY_34, C_41_41, C_10, C_15, D_JAN_24, S_SUCCESS>>

\* priced, a whole-number price
ROW_P3 == <<P_HEATERS, U_EBAY_12, C_41, C_10, C_0, D_JAN_24, S_SUCCESS>>

\* priced, thousands separator
ROW_P4 == <<P_HEATERS, U_EBAY_34, C_USD_1234_50, C_0, C_5, D_JAN_14, S_SUCCESS>>

\* priced, the price missing
ROW_P5 == <<P_HEATERS, U_EBAY_12, MISSING, C_0, C_0, D_JAN_24, S_FAILED>>

\* priced, another marketplace
ROW_P6 == <<P_HEATERS, U_AMAZON, C_USD_5_00, C_5, C_5, D_JAN_24, S_SUCCESS>>

\* priced, a look-alike domain
ROW_P7 == <<P_HEATERS, U_EBAYXCOM, C_USD_5_00, C_5, C_5, D_JAN_24, S_SUCCESS>>

\* priced, an infinite sales numeral
ROW_P8 == <<P_HEATERS, U_EBAY_12, C_USD_5_00, C_INF, C_5, D_JAN_24, S_SUCCESS>>

\* priced, bad sales and date cells
ROW_P9 == <<P_HEATERS, U_EBAY_34, C_USD_5_00, C_ABC, C_NEG_5, D_SOON, S_SUCCESS>>

\* priced, an infinite price numeral
ROW_P10 == <<P_HEATERS, U_EBAY_34, C_INF, C_0, C_5, D_JAN_24, S_SUCCESS>>

\* priced, a negative price and a negative sales numeral, a url with a
\* non-numeric /itm/ segment before two numeric ones
ROW_P12 == <<P_HEATERS, U_EBAY_TWO_ITM, C_USD_NEG_3_00, C_NEG_5, C_5, D_JAN_24, S_SUCCESS>>

\* priced, one extra field
ROW_P11 == <<P_HEATERS, U_EBAY_12, C_USD_41_41, C_16, C_45, D_JAN_24, S_SUCCESS, C_X>>

\* the unpriced row of line 480
ROW_O1 == <<P_HOLDERS, U_EBAY_34, C_11, C_5, D_JAN_14, S_SUCCESS>>

ROW_O2 == <<P_HOLDERS, U_EBAY_12, C_0, C_0, D_JAN_24, S_SUCCESS>>

ROW_O3 == <<P_HOLDERS, U_EBAY_12, C_0, C_5, D_JAN_24, S_SUCCESS>>

ROW_O4 == <<P_HOLDERS, U_AMAZON, C_10, C_15, D_JAN_24, S_SUCCESS>>

ROW_O5 == <<P_HOLDERS, U_EBAYXCOM, C_10, C_15, D_JAN_24, S_SUCCESS>>

\* unpriced, bad and missing cells
ROW_O6 == <<P_HOLDERS, U_EBAY_34, C_ABC, MISSING, MISSING, S_SUCCESS>>

\* unpriced, an infinite sales numeral
ROW_O7 == <<P_HOLDERS, U_EBAY_12, C_INF, C_5, D_JAN_24, S_SUCCESS>>

ROW_O8 == <<P_HOLDERS, U_EBAY_34, C_NEG_5, C_3_7, D_JAN_14, S_FAILED>>

\* unpriced, the product holds the token
ROW_O9 == <<P_KEYWORD_LAMP, U_EBAY_34, C_10, C_15, D_JAN_14, S_SUCCESS>>

ROW_O10 == <<P_HOLDERS, U_EBAY_NO_ITM, C_10, C_0, D_JAN_24, S_SUCCESS>>

\* unpriced, the url missing
ROW_O11 == <<P_HOLDERS, MISSING, C_5, C_5, D_JAN_24, S_SUCCESS>>

ROW_O12 == <<P_HOLDERS, U_EBAY_PADDED, C_5, C_10, D_JAN_24, S_SUCCESS>>

\* five fields
ROW_F1 == <<P_HOLDERS, U_EBAY_12, C_10, C_15, D_JAN_24>>

\* five fields
ROW_F2 == <<P_HOLDERS, U_EBAY_34, C_X, C_5, D_SOON>>

\* four fields
ROW_Q1 == <<P_HOLDERS, U_EBAY_12, C_10, C_15>>

\* three fields
ROW_T1 == <<P_HOLDERS, U_EBAY_12, C_10>>

\* two fields
ROW_B1 == <<P_HOLDERS, U_EBAY_12>>

Rows ==
    {ROW_H7, ROW_H6, ROW_HE, ROW_P1, ROW_P2, ROW_P3,
     ROW_P4, ROW_P5, ROW_P6, ROW_P7, ROW_P8, ROW_P9,
     ROW_P10, ROW_P11, ROW_O1, ROW_O2, ROW_O3, ROW_O4,
     ROW_O5, ROW_O6, ROW_O7, ROW_O8, ROW_O9, ROW_O10,
     ROW_O11, ROW_O12, ROW_F1, ROW_F2, ROW_Q1, ROW_T1,
     ROW_B1, ROW_P12}

\* the longest uploaded text, in rows
MaxRows == 2

\* the uploaded texts: every sequence of at most MaxRows rows (the empty text included)
Contents == UNION {[1..n -> Rows] : n \in 0..MaxRows}

\* ------------------------------------------------------------ the upload handler

VARIABLES
    uploaded_file,  \* line 139: the uploader's file, [present, content]
    df,             \* line 145: the records of the frame parse_sales_data returned
    df_columns,     \* the number of columns of that frame (0 for pd.DataFrame())
    num_cols,       \* parse_sales_data's local, as the body last ran or cached it
    format_type,    \* parse_sales_data's local, as the body last ran or cached it
    st_errors,      \* the st.error messages of the current script run
    parse_cache,    \* line 24: the entries of st.cache_data(max_entries=1)
    upload_log,     \* history: the contents put into the uploader, in order
    sidebar,        \* lines 167-183: the values of the five sidebar widgets
    now,            \* the clock datetime.now() reads, in minutes
    called_at,      \* history: the clock at the last call of apply_filters
    filtered_df,    \* line 186: the records apply_filters returned
    filter_cache,   \* line 96: the entries of st.cache_data(max_entries=10)
    category_stats, \* line 292: the rows calculate_category_stats returned
    stats_cache,    \* line 122: the entries of st.cache_data(max_entries=10)
    interactions    \* history: the number of widget changes so far

vars == <<uploaded_file, df, df_columns, num_cols, format_type, st_errors, parse_cache,
          upload_log, sidebar, now, called_at, filtered_df, filter_cache,
          category_stats, stats_cache, interactions>>

\* line 24: the number of entries the memoization keeps
PARSE_CACHE_MAX_ENTRIES == 1

\* line 96: the number of entries the memoization of apply_filters keeps
FILTER_CACHE_MAX_ENTRIES == 10

\* line 122: the number of entries the memoization of calculate_category_stats keeps
STATS_CACHE_MAX_ENTRIES == 10

\* lines 167-183: the widgets as first drawn: "All Time", 'All Products',
\* "All", and 0 in both number inputs
DefaultSidebar ==
    [time_minutes |-> NONE, selected_product |-> ALL_PRODUCTS,
     performance_filter |-> "All", min_total_sales |-> 0, min_jan_sales |-> 0]

\* the clock when the session starts: 2026-01-24 11:56
ClockStart == ToMinutes(<<2026, 1, 24, 11, 56>>)

Init ==
    /\ uploaded_file = [present |-> FALSE, content |-> <<>>]
    /\ df = <<>>
    /\ df_columns = 0
    /\ num_cols = 0
    /\ format_type = "old"
    /\ st_errors = <<>>
    /\ parse_cache = <<>>
    /\ upload_log = <<>>
    /\ sidebar = DefaultSidebar
    /\ now = ClockStart
    /\ called_at = ClockStart
    /\ filtered_df = <<>>
    /\ filter_cache = <<>>
    /\ category_stats = <<>>
    /\ stats_cache = <<>>
    /\ interactions = 0

\* CachedParse answering from the cache whatever the argument of the entry
CachedParse_AnyEntry(file_content) ==
    IF parse_cache # <<>>
    THEN parse_cache[1].value
    ELSE parse_sales_data(file_content)

\* line 24: the memoized call: the cached value of an entry with the same
\* argument, else the body's result
CachedParse(file_content) ==
    IF \E e \in DOMAIN parse_cache : parse_cache[e].key = file_content
    THEN parse_cache[CHOOSE e \in DOMAIN parse_cache : parse_cache[e].key = file_content].value
    ELSE parse_sales_data(file_content)

\* line 24: the cache after the call, the oldest entry evicted past max_entries
CacheAfter(file_content, value) ==
    IF \E e \in DOMAIN parse_cache : parse_cache[e].key = file_content
    THEN parse_cache
    ELSE LET grown == Append(parse_cache, [key |-> file_content, value |-> value])
         IN IF Len(grown) > PARSE_CACHE_MAX_ENTRIES THEN Tail(grown) ELSE grown

\* the entry of a cache whose key is key, 0 when there is none
EntryOf(cache, key) ==
    IF \E e \in DOMAIN cache : cache[e].key = key
    THEN CHOOSE e \in DOMAIN cache : cache[e].key = key
    ELSE 0

\* a cache after a call with key: unchanged on a hit, else one entry more, the
\* oldest evicted past max_entries
CachePut(cache, key, value, max_entries) ==
    IF EntryOf(cache, key) # 0 THEN cache
    ELSE LET grown == Append(cache, [key |-> key, value |-> value])
         IN IF Len(grown) > max_entries THEN Tail(grown) ELSE grown

\* lines 96-97: the key of a call of apply_filters: its six arguments
FilterKey(frame, sb) == [frame |-> frame, args |-> sb]

\* lines 96, 186: the memoized call of apply_filters: the cached value of an
\* entry with the same arguments, else the body's result at the present clock
CachedFilter(frame, sb) ==
    IF EntryOf(filter_cache, FilterKey(frame, sb)) # 0
    THEN filter_cache[EntryOf(filter_cache, FilterKey(frame, sb))].value
    ELSE apply_filters(frame, sb.time_minutes, sb.selected_product, sb.performance_filter,
                       sb.min_total_sales, sb.min_jan_sales, now)

\* lines 122, 292: the memoized call of calculate_category_stats: the frames
\* it can return
CachedStats(frame) ==
    IF EntryOf(stats_cache, frame) # 0
    THEN {stats_cache[EntryOf(stats_cache, frame)].value}
    ELSE calculate_category_stats(frame)

\* the largest value of an integer column
ColumnMax(frame, col) ==
    CHOOSE v \in {frame[i][col] : i \in DOMAIN frame} :
        \A i \in DOMAIN frame : frame[i][col] <= v

\* lines 182-183: st.number_input(label, 0, max, 0) raises when max < 0
NumberInputRaises(frame) ==
    \/ ColumnMax(frame, "Total_Sales") < 0
    \/ ColumnMax(frame, "Jan_Sales") < 0

\* lines 141-186, 292: one run of the script with a file in the uploader and
\* the sidebar widgets at sb
ScriptRun(file_content, sb) ==
    \E result \in {CachedParse(file_content)} :
    /\ df' = result.records
    /\ df_columns' = result.n_columns
    /\ num_cols' = result.num_cols
    /\ format_type' = result.format_type
    /\ parse_cache' = CacheAfter(file_content, result)
    /\ sidebar' = sb
    /\ IF result.records = <<>>
       THEN /\ st_errors' = (IF result.error = "" THEN <<>> ELSE <<result.error>>)
                            \o <<"No valid data found">>
            /\ filtered_df' = <<>>
            /\ category_stats' = <<>>
            /\ UNCHANGED <<called_at, filter_cache, stats_cache>>
       ELSE IF NumberInputRaises(result.records)
       THEN /\ st_errors' = (IF result.error = "" THEN <<>> ELSE <<result.error>>)
                            \o <<"number_input exception">>
            /\ filtered_df' = <<>>
            /\ category_stats' = <<>>
            /\ UNCHANGED <<called_at, filter_cache, stats_cache>>
       ELSE \E filtered \in {CachedFilter(result.records, sb)} :
            \E stats \in CachedStats(filtered) :
               /\ st_errors' = (IF result.error = "" THEN <<>> ELSE <<result.error>>)
               /\ called_at' = now
               /\ filtered_df' = filtered
               /\ filter_cache' = CachePut(filter_cache, FilterKey(result.records, sb),
                                           filtered, FILTER_CACHE_MAX_ENTRIES)
               /\ category_stats' = stats
               /\ stats_cache' = CachePut(stats_cache, filtered, stats,
                                          STATS_CACHE_MAX_ENTRIES)

\* the user puts a file into the empty uploader and the script runs
Upload(file_content) ==
    /\ ~uploaded_file.present
    /\ uploaded_file' = [present |-> TRUE, content |-> file_content]
    /\ upload_log' = Append(upload_log, file_content)
    /\ ScriptRun(file_content, sidebar)
    /\ UNCHANGED <<now, interactions>>

\* a widget interaction reruns the script on the same uploaded file
Rerun ==
    /\ uploaded_file.present
    /\ UNCHANGED <<uploaded_file, upload_log, now, interactions>>
    /\ ScriptRun(uploaded_file.content, sidebar)

\* the first upload of a session: any of the texts
UploadAny ==
    /\ ~uploaded_file.present
    /\ \E c \in Contents : Upload(c)

Next ==
    \/ UploadAny
    \/ Rerun

Spec == Init /\ [][Next]_vars

\* ------------------------------------------------------------ a sequence of uploads

\* the number of files put into the uploader in one session
MaxUploads == 3

\* the texts of the upload sequences: priced, unpriced, mixed, with a header,
\* one whose parse raises and one with too few columns
CacheContents ==
    {<<ROW_P1>>, <<ROW_O1>>, <<ROW_P1, ROW_O1>>, <<ROW_H6, ROW_O3>>, <<ROW_O7>>, <<ROW_Q1>>}

\* lines 139-145: the user puts another file (or the same one again) into the
\* uploader and the script runs
Replace(file_content) ==
    /\ uploaded_file.present
    /\ Len(upload_log) < MaxUploads
    /\ uploaded_file' = [present |-> TRUE, content |-> file_content]
    /\ upload_log' = Append(upload_log, file_content)
    /\ ScriptRun(file_content, sidebar)
    /\ UNCHANGED <<now, interactions>>

NextCache ==
    \/ \E c \in CacheContents : Upload(c)
    \/ \E c \in CacheContents : Replace(c)
    \/ Rerun

SpecCache == Init /\ [][NextCache]_vars

\* ------------------------------------------------------------ the sidebar filters

\* the number of widget changes in one session
MaxInteractions == 2

\* the number of steps of the clock in one session
MaxTicks == 2

\* the minutes of one step of the clock
TickMinutes == 5

\* the texts of the filter sessions: three unpriced rows of two products and
\* two dates, two priced rows of one product, one row twice, and one row
\* without sales
FilterContents ==
    {<<ROW_O1, ROW_O3, ROW_O9>>, <<ROW_P1, ROW_P4>>, <<ROW_O1, ROW_O1>>, <<ROW_O2>>}

\* the time windows the sessions select
FilterTimeChoices == {NONE, Minutes(5), Minutes(15)}

\* the values the sessions type into the two number inputs
MinSalesChoices == {0, 10}

\* line 150: the sidebar is drawn when the Dataset is not empty
WidgetsShown == uploaded_file.present /\ df # <<>>

\* a widget takes a new value and the script reruns with the sidebar at sb
Interact(sb) ==
    /\ WidgetsShown
    /\ interactions < MaxInteractions
    /\ sb # sidebar
    /\ interactions' = interactions + 1
    /\ UNCHANGED <<uploaded_file, upload_log, now>>
    /\ ScriptRun(uploaded_file.content, sb)

\* lines 167-171: the user selects a time window (the model selects one only
\* over a Dataset whose dates are timestamps or NaT)
SetTimeFilter(t) ==
    /\ t \in TimeFilterOptions
    /\ t # NONE => \A i \in DOMAIN df : df[i].Date_Checked.k # "numeral"
    /\ Interact([sidebar EXCEPT !.time_minutes = t])

\* lines 173-174: the user selects a product of the Dataset, or 'All Products'
SetProduct(p) ==
    /\ p \in {ALL_PRODUCTS} \cup {df[i].Product : i \in DOMAIN df}
    /\ Interact([sidebar EXCEPT !.selected_product = p])

\* lines 176-179: the user selects a performance type
SetPerformance(f) ==
    /\ f \in PerformanceOptions
    /\ Interact([sidebar EXCEPT !.performance_filter = f])

\* line 182: the user types a minimum of total sales, within 0..max
SetMinTotalSales(n) ==
    /\ WidgetsShown /\ ~NumberInputRaises(df)
    /\ n \in 0..ColumnMax(df, "Total_Sales")
    /\ Interact([sidebar EXCEPT !.min_total_sales = n])

\* line 183: the user types a minimum of January sales, within 0..max
SetMinJanSales(n) ==
    /\ WidgetsShown /\ ~NumberInputRaises(df)
    /\ n \in 0..ColumnMax(df, "Jan_Sales")
    /\ Interact([sidebar EXCEPT !.min_jan_sales = n])

\* time passes
Tick ==
    /\ now < ClockStart + (MaxTicks * TickMinutes)
    /\ now' = now + TickMinutes
    /\ UNCHANGED <<uploaded_file, df, df_columns, num_cols, format_type, st_errors,
                   parse_cache, upload_log, sidebar, called_at, filtered_df,
                   filter_cache, category_stats, stats_cache, interactions>>

NextFilter ==
    \/ \E c \in FilterContents : Upload(c)
    \/ \E t \in FilterTimeChoices : SetTimeFilter(t)
    \/ \E p \in {ALL_PRODUCTS, P_HOLDERS, P_KEYWORD_LAMP} : SetProduct(p)
    \/ \E f \in PerformanceOptions : SetPerformance(f)
    \/ \E n \in MinSalesChoices : SetMinTotalSales(n)
    \/ \E n \in MinSalesChoices : SetMinJanSales(n)
    \/ Rerun
    \/ Tick

SpecFilter == Init /\ [][NextFilter]_vars

\* ------------------------------------------------------------ claims

\* the literal text "ebay.com"
LIT_EBAY_COM == <<"e","b","a","y",".","c","o","m">>

\* the table the reader makes of the uploaded text
UploadedTable == read_csv(uploaded_file.content)

\* the data row a record of df was made from
SourceRow(r) == DataRows(UploadedTable)[r.index + 1]

\* the data row of table a record was made from
RowOf(table, r) == DataRows(table)[r.index + 1]

\* C1: every record of the Dataset has a url that contains the literal
\* substring "ebay.com"; a row whose url does not contain it (another
\* character in place of the dot included) is never in the output.
C1_UrlHoldsLiteralDomain ==
    \A i \in DOMAIN df : Contains(df[i].URL, LIT_EBAY_COM)

\* C2: in every record, with price a fixed-point amount in hundredths:
\* total_sales = dec_sales + jan_sales, growth = jan_sales - dec_sales,
\* dec_revenue = dec_sales * price, jan_revenue = jan_sales * price,
\* total_revenue = total_sales * price, revenue_growth = jan_revenue -
\* dec_revenue; and the returned record still holds the sales and price that
\* were coerced from its source row (nothing is changed after derivation).
C2_DerivedMetrics ==
    \E table \in {UploadedTable} :
    \E lay \in {Layout(format_type, num_cols)} :
    \A i \in DOMAIN df :
        \E r \in {df[i]} :
        \E src \in {RowOf(table, df[i])} :
           /\ r.Total_Sales = r.Dec_Sales + r.Jan_Sales
           /\ r.Growth = r.Jan_Sales - r.Dec_Sales
           /\ r.Dec_Sales = TruncToInt(SalesFloat(src[lay.Dec]).v)
           /\ r.Jan_Sales = TruncToInt(SalesFloat(src[lay.Jan]).v)
           /\ r.Price = PriceOf(src, table.dtypes, lay)
           /\ r.Price.k = "fin" =>
                /\ r.Dec_Revenue = Fin(r.Dec_Sales * r.Price.v)
                /\ r.Jan_Revenue = Fin(r.Jan_Sales * r.Price.v)
                /\ r.Total_Revenue = Fin(r.Total_Sales * r.Price.v)
                /\ r.Revenue_Growth = Fin(r.Jan_Revenue.v - r.Dec_Revenue.v)

\* C2 witness: the record of the priced row (41.41, 16, 45) with its revenues
C2_Witness ==
    \E i \in DOMAIN df :
        /\ df[i].Price = Fin(4141) /\ df[i].Dec_Sales = 16 /\ df[i].Jan_Sales = 45
        /\ df[i].Total_Sales = 61 /\ df[i].Growth = 29
        /\ df[i].Total_Revenue = Fin(252601) /\ df[i].Revenue_Growth = Fin(120089)

\* C3: growth_pct is (jan - dec) / dec * 100 when dec > 0, else 100 when
\* jan > 0, else 0 (as exact fractions); (10,15) gives 50, (10,0) gives -100,
\* (0,5) gives 100, (0,0) gives 0; the divisor is never zero.
C3_GrowthPct ==
    \A i \in DOMAIN df :
        LET r == df[i]
            g == r.Growth_Pct
        IN /\ g.den # 0
           /\ r.Dec_Sales > 0 => g.num * r.Dec_Sales = (r.Jan_Sales - r.Dec_Sales) * 100 * g.den
           /\ (r.Dec_Sales <= 0 /\ r.Jan_Sales > 0) => g.num = 100 * g.den
           /\ (r.Dec_Sales <= 0 /\ r.Jan_Sales <= 0) => g.num = 0
           /\ (r.Dec_Sales = 10 /\ r.Jan_Sales = 15) => g.num = 50 * g.den
           /\ (r.Dec_Sales = 10 /\ r.Jan_Sales = 0) => g.num = -100 * g.den

\* C3 witness: one Dataset with a record of a positive dec_sales that fell to
\* zero and a record of a negative dec_sales
C3_Witness ==
    /\ \E i \in DOMAIN df : df[i].Dec_Sales = 10 /\ df[i].Jan_Sales = 0
                            /\ df[i].Growth_Pct.num = -100 * df[i].Growth_Pct.den
    /\ \E i \in DOMAIN df : df[i].Dec_Sales < 0 /\ df[i].Jan_Sales > 0
                            /\ df[i].Growth_Pct.num = 100 * df[i].Growth_Pct.den

\* C4: the domain check is the only row rejection rule: when the source has
\* enough columns, every data row (a row the reader kept, the header row
\* aside) whose url contains "ebay.com" is in the Dataset exactly once, in
\* source order, also when a sales, price or date cell is missing or
\* unparseable; such a cell gives 0, 0, 0 or null.
C4_OnlyDomainRejects ==
    (uploaded_file.present /\ ~UploadedTable.raised /\ Layout(format_type, num_cols).ok) =>
        LET data == DataRows(UploadedTable)
            lay == Layout(format_type, num_cols)
        IN /\ \A n \in DOMAIN data :
                Contains(data[n][2], LIT_EBAY_COM) =>
                    /\ Cardinality({i \in DOMAIN df : df[i].index = n - 1}) = 1
                    /\ \A i \in DOMAIN df : df[i].index = n - 1 =>
                        /\ to_numeric(data[n][lay.Dec]).k # "fin" => df[i].Dec_Sales = 0
                        /\ to_numeric(data[n][lay.Jan]).k # "fin" => df[i].Jan_Sales = 0
                        /\ (lay.Price # 0 /\ data[n][lay.Price] = <<>>) => df[i].Price = Fin(0)
                        /\ (data[n][lay.Date] = <<>> \/ data[n][lay.Date] = D_SOON)
                               => df[i].Date_Checked = NaT
                        /\ df[i].URL = Strip(data[n][2])
                        /\ df[i].Product = Strip(data[n][1])
           /\ \A i, j \in DOMAIN df : i < j => df[i].index < df[j].index

\* C5: parse_sales_data returns either a Dataset whose records carry all 15
\* fields or the empty Dataset, and returns the empty Dataset with an error
\* only after a structural failure (an unreadable text, too few columns): a
\* source that is structurally sound and holds a row with an ebay.com url
\* yields a non-empty Dataset, whatever its numeric and date cells hold.
C5_NoPartialNoCellFailure ==
    /\ df_columns \in {0, N_OUTPUT_COLUMNS}
    /\ df_columns = 0 => df = <<>>
    /\ (/\ uploaded_file.present /\ ~UploadedTable.raised
        /\ Layout(format_type, num_cols).ok
        /\ \E n \in DOMAIN DataRows(UploadedTable) :
                Contains(DataRows(UploadedTable)[n][2], LIT_EBAY_COM))
       => (df_columns = N_OUTPUT_COLUMNS /\ df # <<>> /\ st_errors = <<>>)

\* the script showed the "insufficient columns" error of line 55
InsufficientColumns == \E e \in DOMAIN st_errors : st_errors[e] = "insufficient columns"

\* C6 as claimed: 6 columns give price 0 on every record; 3, 4 or 5 columns
\* give price 0 and status "N/A" on every record and pass detection; only
\* fewer than 3 columns fail detection.
C6_ShortFromThreeColumns ==
    (uploaded_file.present /\ ~UploadedTable.raised) =>
        /\ num_cols = 6 => \A i \in DOMAIN df : df[i].Price = Fin(0)
        /\ num_cols \in 3..5 =>
              /\ ~InsufficientColumns
              /\ \A i \in DOMAIN df : df[i].Price = Fin(0) /\ df[i].Status = STR_NA
        /\ InsufficientColumns <=> num_cols < 3

\* C6 amended: 6 columns give price 0 on every record; exactly 5 columns give
\* price 0 and status "N/A" on every record and pass detection; a source fails
\* detection, with an empty Dataset, exactly when it has fewer than 5 columns.
C6_ShortFromFiveColumns ==
    /\ InsufficientColumns => (df = <<>> /\ df_columns = 0)
    /\ \E table \in {UploadedTable} :
       (uploaded_file.present /\ ~table.raised) =>
        /\ num_cols = table.width
        /\ num_cols = 6 => \A i \in DOMAIN df : df[i].Price = Fin(0)
        /\ num_cols = 5 =>
              /\ ~InsufficientColumns
              /\ \A i \in DOMAIN df : df[i].Price = Fin(0) /\ df[i].Status = STR_NA
        /\ InsufficientColumns <=> num_cols < 5

\* C6 witness: a 5-column source gave a record with price 0 and status "N/A"
C6_Witness ==
    /\ uploaded_file.present /\ UploadedTable.width = 5
    /\ \E i \in DOMAIN df : df[i].Price = Fin(0) /\ df[i].Status = STR_NA

\* a currency-like text: it holds "$", or it is made of digits, "." and ","
\* with at least one digit and one "."
PriceLikeText(txt) ==
    \/ \E i \in DOMAIN txt : txt[i] = "$"
    \/ /\ \E i \in DOMAIN txt : txt[i] = "."
       /\ \E i \in DOMAIN txt : IsDigit(txt[i])
       /\ \A i \in DOMAIN txt : IsDigit(txt[i]) \/ txt[i] = "." \/ txt[i] = ","

\* the number of currency-like third fields among the first min(50, n) data rows
PriceLikeCount ==
    LET data == DataRows(UploadedTable)
        sampled == {n \in DOMAIN data : n <= 50}
    IN Cardinality({n \in sampled : PriceLikeText(data[n][3])})

\* C7 as claimed: with 7 or more columns the schema is Priced iff at least 3
\* of the third fields of the first min(50, n) data rows are currency-like,
\* else every record has price 0.
C7_PricedByMinimumCount ==
    (uploaded_file.present /\ ~UploadedTable.raised /\ num_cols >= 7) =>
        /\ format_type = "new" <=> PriceLikeCount >= 3
        /\ format_type # "new" => \A i \in DOMAIN df : df[i].Price = Fin(0)

\* C7 amended: with 7 or more columns the schema is Priced iff the third
\* field of the first data row, as the reader typed it and str() renders it,
\* is currency-like; no later row is sampled and no minimum count applies;
\* else every record has price 0.  A source of fewer columns is never Priced.
C7_PricedByFirstRow ==
    (uploaded_file.present /\ ~UploadedTable.raised) =>
        LET data == DataRows(UploadedTable) IN
        /\ format_type = "new" <=>
              /\ num_cols >= 7
              /\ data # <<>>
              /\ PriceLikeText(StrOf(data[1][3], UploadedTable.dtypes[3]))
        /\ format_type # "new" => \A i \in DOMAIN df : df[i].Price = Fin(0)

\* C7 witness: a Priced source whose only currency-like third field is the
\* first data row's, with a record that carries that price
C7_Witness ==
    /\ uploaded_file.present /\ format_type = "new"
    /\ Len(DataRows(UploadedTable)) >= 2
    /\ PriceLikeCount = 1
    /\ \E i \in DOMAIN df : df[i].Price.k = "fin" /\ df[i].Price.v > 0

\* the first row's first cell holds "keyword" in some letter case
FirstCellHoldsToken ==
    /\ uploaded_file.content # <<>>
    /\ Contains(Lower(uploaded_file.content[1][1]), STR_KEYWORD)

\* C8: when the first row's first cell holds "keyword" in any letter case the
\* row is removed before schema detection and is never a record; only the
\* first row is removed, and a first row without the token is a data row:
\* every record comes from a row after the header, every such row with an
\* ebay.com url is a record, and the format is decided on the row after the
\* header.
C8_HeaderSkip ==
    (uploaded_file.present /\ df_columns = N_OUTPUT_COLUMNS) =>
        \E table \in {UploadedTable} :
        \E kept \in {table.rows} :
        \E h \in {IF FirstCellHoldsToken THEN 1 ELSE 0} :
           /\ \A i \in DOMAIN df :
                /\ df[i].index + 1 + h \in DOMAIN kept
                /\ df[i].Product = Strip(kept[df[i].index + 1 + h][1])
                /\ df[i].Item_ID = ItemId(kept[df[i].index + 1 + h][2])
           /\ \A n \in (1 + h)..Len(kept) :
                Contains(kept[n][2], LIT_EBAY_COM) =>
                    \E i \in DOMAIN df : df[i].index = n - 1 - h
           /\ (h = 1 /\ format_type = "new") =>
                (Len(kept) >= 2 /\ PriceLikeText(StrOf(kept[2][3], table.dtypes[3])))

\* C8 witness: a header row with the token in mixed case and an ebay.com url
\* was dropped, and the second row, whose first cell holds the token too, is
\* the only record
C8_Witness ==
    /\ uploaded_file.present
    /\ FirstCellHoldsToken
    /\ ~Contains(uploaded_file.content[1][1], STR_KEYWORD)
    /\ Contains(uploaded_file.content[1][2], LIT_EBAY_COM)
    /\ Len(df) = 1
    /\ Contains(df[1].Product, STR_KEYWORD)

\* C9: the final dataset holds exactly one record per distinct url, the last
\* occurrence of the url, and as many records as distinct urls.
C9_OneRecordPerUrl ==
    /\ \A i, j \in DOMAIN df : i # j => df[i].URL # df[j].URL
    /\ Len(df) = Cardinality({df[i].URL : i \in DOMAIN df})

\* C10: in a file that holds both 7-field and 6-field rows, every row with an
\* ebay.com url is in the output with dec_sales and jan_sales read from the
\* positions of its own format (fields 4 and 5 of a 7-field row, 3 and 4 of a
\* 6-field row) and the price read from the third field of a 7-field row, 0
\* for a 6-field row (stated for the files whose parse does not raise).
C10_MixedFormats ==
    LET rows == uploaded_file.content
        own(row) == IF Len(row) = 7 THEN Layout("new", 7) ELSE Layout("old", 6)
    IN (/\ uploaded_file.present
        /\ \A e \in DOMAIN st_errors : st_errors[e] # "exception"
        /\ \A n \in DOMAIN rows : Len(rows[n]) \in {6, 7}
        /\ \E n \in DOMAIN rows : Len(rows[n]) = 6
        /\ \E n \in DOMAIN rows : Len(rows[n]) = 7)
       => \A n \in DOMAIN rows :
            (Contains(rows[n][2], LIT_EBAY_COM) /\ ~(n = 1 /\ FirstCellHoldsToken)) =>
                \E i \in DOMAIN df :
                    /\ df[i].URL = Strip(rows[n][2])
                    /\ df[i].Product = Strip(rows[n][1])
                    /\ df[i].Dec_Sales = TruncToInt(SalesFloat(rows[n][own(rows[n]).Dec]).v)
                    /\ df[i].Jan_Sales = TruncToInt(SalesFloat(rows[n][own(rows[n]).Jan]).v)
                    /\ df[i].Price = IF Len(rows[n]) = 7
                                     THEN PriceOf(rows[n], [j \in 1..7 |-> "object"], own(rows[n]))
                                     ELSE Fin(0)

\* a negative numeral: "-" and a decimal numeral that is not zero
IsNegativeNumeral(txt) ==
    /\ txt # <<>> /\ Head(txt) = "-"
    /\ IsUnsignedDecimal(Tail(txt))
    /\ \E i \in DOMAIN txt : IsDigit(txt[i]) /\ txt[i] # "0"

\* the text of a price cell with "$", "," and the surrounding blanks removed
BarePrice(txt) ==
    LET kept == SelectSeq(txt, LAMBDA c : c # "$" /\ c # ",") IN Strip(kept)

\* C11 as claimed: in every record price is non-negative and dec_sales and
\* jan_sales are non-negative integers.
C11_NonNegative ==
    \A i \in DOMAIN df :
        /\ df[i].Dec_Sales >= 0
        /\ df[i].Jan_Sales >= 0
        /\ df[i].Price.v >= 0

\* C11 amended: dec_sales and jan_sales are integers and price is a number
\* (never NaN), 0 when the cell is missing or unparseable; a negative numeral
\* is accepted as it is, not clamped: a sales field is negative exactly when
\* its cell is a negative numeral of magnitude 1 or more, and price is
\* negative exactly when its cell, "$" and "," removed, is a negative numeral.
C11_NegativesKept ==
    \E table \in {UploadedTable} :
    \E lay \in {Layout(format_type, num_cols)} :
    \A i \in DOMAIN df :
        \E r \in {df[i]} :
        \E src \in {RowOf(table, df[i])} :
        \E dec_txt \in {Strip(src[lay.Dec])} :
        \E jan_txt \in {Strip(src[lay.Jan])} :
           /\ r.Dec_Sales \in Int /\ r.Jan_Sales \in Int
           /\ r.Price.k # "nan"
           /\ r.Dec_Sales < 0 <=>
                (IsNegativeNumeral(dec_txt) /\ UnsignedHundredths(Tail(dec_txt)) >= 100)
           /\ r.Jan_Sales < 0 <=>
                (IsNegativeNumeral(jan_txt) /\ UnsignedHundredths(Tail(jan_txt)) >= 100)
           /\ IsNegativeNumeral(dec_txt) =>
                r.Dec_Sales = -(UnsignedHundredths(Tail(dec_txt)) \div 100)
           /\ r.Price.v < 0 <=>
                (lay.Price # 0 /\ IsNegativeNumeral(BarePrice(src[lay.Price])))
           /\ (lay.Price # 0 /\ IsNegativeNumeral(BarePrice(src[lay.Price]))) =>
                r.Price = Fin(-UnsignedHundredths(Tail(BarePrice(src[lay.Price]))))

\* C11 witness: a record with price -3.00 and dec_sales -5, read from the
\* cells "$-3.00" and "-5"
C11_Witness ==
    \E i \in DOMAIN df :
        /\ df[i].Price = Fin(-300) /\ df[i].Dec_Sales = -5 /\ df[i].Jan_Sales = 5
        /\ SourceRow(df[i])[3] = C_USD_NEG_3_00

C13_FieldMapping ==
    /\ \E table \in {UploadedTable} :
       \A i \in DOMAIN df :
          \E r \in {df[i]} :
          \E src \in {RowOf(table, df[i])} :
             /\ (format_type = "new" /\ src[3] = C_USD_41_41 /\ src[4] = C_16 /\ src[5] = C_45) =>
                   /\ r.Price = Fin(4141)
                   /\ r.Dec_Sales = 16 /\ r.Jan_Sales = 45
                   /\ r.Total_Sales = 61 /\ r.Growth = 29
                   /\ r.Total_Revenue = Fin(252601)
             /\ (format_type = "new" /\ src[3] = C_USD_1234_50) => r.Price = Fin(123450)
             /\ (num_cols = 6 /\ src[3] = C_11 /\ src[4] = C_5) =>
                   /\ r.Dec_Sales = 11 /\ r.Jan_Sales = 5
                   /\ r.Growth = -6
                   /\ r.Price = Fin(0)
                   /\ r.Total_Revenue = Fin(0)
    /\ (uploaded_file.present
          /\ uploaded_file.content \in {<<ROW_P1>>, <<ROW_H7, ROW_P1>>, <<ROW_O1>>, <<ROW_H6, ROW_O1>>}) =>
          /\ Len(df) = 1
          /\ format_type = (IF Len(ROW_P1) = num_cols THEN "new" ELSE "old")

\* C13 witness: the priced row under its header, read as one record of price
\* 41.41 and total_revenue 2526.01
C13_Witness ==
    /\ uploaded_file.present
    /\ uploaded_file.content = <<ROW_H7, ROW_P1>>
    /\ Len(df) = 1
    /\ df[1].Price = Fin(4141) /\ df[1].Total_Revenue = Fin(252601)

\* a match of /itm/(\d+) starts at position i of url
ItemHit(url, i) ==
    /\ LitAt(url, i, STR_ITM)
    /\ i + Len(STR_ITM) <= Len(url)
    /\ IsDigit(url[i + Len(STR_ITM)])

\* C14: item_id is the whole digit run after the first "/itm/" of url that a
\* digit follows, and "N/A" exactly when url has no "/itm/" followed by a
\* digit; when the parse does not raise, a row whose url holds "ebay.com" has
\* its record whether or not an item id was found.
C14_ItemId ==
    /\ \A k \in DOMAIN df :
          \E url \in {df[k].URL} :
          \E id \in {df[k].Item_ID} :
          \E hits \in {{i \in DOMAIN url : ItemHit(url, i)}} :
             /\ (hits = {}) <=> (id = STR_NA)
             /\ hits # {} =>
                   \E i \in hits :
                      /\ \A g \in hits : i <= g
                      /\ id # <<>>
                      /\ id = SubSeq(url, i + Len(STR_ITM), i + Len(STR_ITM) + Len(id) - 1)
                      /\ \A d \in DOMAIN id : IsDigit(id[d])
                      /\ i + Len(STR_ITM) + Len(id) <= Len(url) =>
                            ~IsDigit(url[i + Len(STR_ITM) + Len(id)])
    /\ (uploaded_file.present /\ ~InsufficientColumns
          /\ \A e \in DOMAIN st_errors : st_errors[e] # "exception") =>
          \E data \in {DataRows(UploadedTable)} :
          \A j \in DOMAIN data :
             Contains(data[j][2], LIT_EBAY_COM) =>
                \E k \in DOMAIN df : df[k].index = j - 1

\* C14 witness: a record whose url holds "ebay.com" and no "/itm/" at all, kept
\* with item_id "N/A", beside a record with a digit-run item id
C14_Witness ==
    /\ \E k \in DOMAIN df :
          /\ Contains(df[k].URL, LIT_EBAY_COM)
          /\ ~Contains(df[k].URL, STR_ITM)
          /\ df[k].Item_ID = STR_NA
    /\ \E k \in DOMAIN df : df[k].Item_ID = <<"8">>

\* C15: after every call of apply_filters with a window of T minutes (the
\* other widgets as first drawn) the result holds exactly the records of the
\* Dataset whose date_checked is a timestamp not earlier than T minutes before
\* the time of that call, a record without a date excluded, whether the call
\* ran the body or was answered from the memoization.
C15_WindowAtCallTime ==
    (/\ WidgetsShown
     /\ st_errors = <<>>
     /\ sidebar.time_minutes # NONE
     /\ sidebar = [DefaultSidebar EXCEPT !.time_minutes = sidebar.time_minutes]) =>
        \A i \in DOMAIN df :
            (\E k \in DOMAIN filtered_df : filtered_df[k] = df[i])
            <=> /\ df[i].Date_Checked.k = "ts"
                /\ ToMinutes(df[i].Date_Checked.v) >= called_at - sidebar.time_minutes[1]

\* C16: the frame of calculate_category_stats has exactly one row per distinct
\* product of its input; each row counts and sums the records of its product
\* and no others; Listings Count sums to the number of input records and
\* Total, Dec and Jan Sales sum to the totals of the input columns.
C16_CategoryPartition ==
    (WidgetsShown /\ st_errors = <<>>) =>
        \E products \in {{filtered_df[i].Product : i \in DOMAIN filtered_df}} :
           /\ Len(category_stats) = Cardinality(products)
           /\ {category_stats[k].Product : k \in DOMAIN category_stats} = products
           /\ \A k \in DOMAIN category_stats :
                 \E members \in {{i \in DOMAIN filtered_df :
                                    filtered_df[i].Product = category_stats[k].Product}} :
                    /\ category_stats[k].Listings_Count = Cardinality(members)
                    /\ category_stats[k].Total_Sales =
                          ISum([i \in DOMAIN filtered_df |->
                                  IF i \in members THEN filtered_df[i].Total_Sales ELSE 0])
                    /\ category_stats[k].Dec_Sales =
                          ISum([i \in DOMAIN filtered_df |->
                                  IF i \in members THEN filtered_df[i].Dec_Sales ELSE 0])
                    /\ category_stats[k].Jan_Sales =
                          ISum([i \in DOMAIN filtered_df |->
                                  IF i \in members THEN filtered_df[i].Jan_Sales ELSE 0])
           /\ ISum(Column(category_stats, "Listings_Count")) = Len(filtered_df)
           /\ ISum(Column(category_stats, "Total_Sales")) = ISum(Column(filtered_df, "Total_Sales"))
           /\ ISum(Column(category_stats, "Dec_Sales")) = ISum(Column(filtered_df, "Dec_Sales"))
           /\ ISum(Column(category_stats, "Jan_Sales")) = ISum(Column(filtered_df, "Jan_Sales"))

\* C16 witness: three records of two products, grouped into a row of two
\* listings and a row of one
C16_Witness ==
    /\ WidgetsShown /\ st_errors = <<>>
    /\ Len(filtered_df) = 3
    /\ Len(category_stats) = 2
    /\ \E k \in DOMAIN category_stats : category_stats[k].Listings_Count = 2
    /\ \E k \in DOMAIN category_stats : category_stats[k].Listings_Count = 1

====
